---- MODULE Spec2Model ----
(***************************************************************************)
(* Proof verification over RSK's unified binary trie (package rsktrie):    *)
(* the node deserializer (FromMessage, both wire formats), the trie key    *)
(* mapper and the proof verifier's traversal loop.                         *)
(*                                                                         *)
(* Bytes are integers 0..255, byte strings are sequences of bytes, bit     *)
(* paths are sequences of 0/1.  A nil byte slice is the empty sequence.    *)
(***************************************************************************)
EXTENDS Integers, Sequences, FiniteSets, TLC

VARIABLES entry, stateRoot, address, storageKey, key, expectedValue, proofNodes,
          pc, idx, nodeMap, keySlice, currentNode, keyPos, iterations,
          lastStep, retValue, retErr, result, goErr,
          msg, trie, mapped

vars == <<entry, stateRoot, address, storageKey, key, expectedValue, proofNodes,
          pc, idx, nodeMap, keySlice, currentNode, keyPos, iterations,
          lastStep, retValue, retErr, result, goErr, msg, trie, mapped>>

\* the state of a direct call of the deserializer or of the key mapper
codecVars == <<msg, trie, mapped>>

(***************************************************************************)
(* Sizes fixed by the program.                                             *)
(***************************************************************************)
HashSize == 32
SecureKeySize == 10
AddressKeySize == 20

Min(a, b) == IF a < b THEN a ELSE b

Zeros(n) == [k \in 1..n |-> 0]

Take(s, n) == SubSeq(s, 1, Min(n, Len(s)))

Drop(s, n) == SubSeq(s, Min(n, Len(s)) + 1, Len(s))

\* (flags & mask) == mask, for a one-bit mask
HasFlag(flags, mask) == (flags \div mask) % 2 = 1

(***************************************************************************)
(* bytes.Reader, as the parser uses it.  The reader is the sequence of     *)
(* bytes not yet consumed.  ReadByte fails at end of input.  Read fails    *)
(* only when nothing at all is left; otherwise it copies what is there,    *)
(* leaves the rest of the destination zero and reports no error.           *)
(***************************************************************************)
ReadByte(buf) ==
    IF Len(buf) = 0
    THEN [ok |-> FALSE, b |-> 0, rest |-> buf]
    ELSE [ok |-> TRUE, b |-> buf[1], rest |-> Tail(buf)]

Read(buf, n) ==
    IF Len(buf) = 0
    THEN [ok |-> FALSE, data |-> Zeros(n), rest |-> buf]
    ELSE [ok |-> TRUE,
          data |-> [k \in 1..n |-> IF k <= Len(buf) THEN buf[k] ELSE 0],
          rest |-> Drop(buf, n)]

(***************************************************************************)
(* Bit-path codec: bytes to bits, most significant bit first.              *)
(***************************************************************************)
BitOf(b, k) == (b \div (2 ^ (7 - k))) % 2

TrieKeySliceFromKey(bytes) ==
    [j \in 1..(8 * Len(bytes)) |-> BitOf(bytes[((j - 1) \div 8) + 1], (j - 1) % 8)]

TrieKeySliceEmpty == << >>

\* the first pathLen bits of encodedBytes
TrieKeySliceFromEncodedFull(encodedBytes, pathLen) ==
    [j \in 1..pathLen |-> BitOf(encodedBytes[((j - 1) \div 8) + 1], (j - 1) % 8)]

\* lshared bits of message, starting at byte offset current (0-based)
TrieKeySliceFromEncoded(message, current, lshared, lencoded) ==
    TrieKeySliceFromEncodedFull(SubSeq(message, current + 1, current + lencoded), lshared)

SliceLength(slice) == Len(slice)

\* 0-based bit access
SliceGet(slice, i) == slice[i + 1]

(***************************************************************************)
(* VarInt and Uint24.                                                      *)
(***************************************************************************)
NilVarInt == [Value |-> -1, Size |-> 0]

LittleEndian(bytes) ==
    LET RECURSIVE le(_)
        le(k) == IF k > Len(bytes) THEN 0 ELSE bytes[k] + 256 * le(k + 1)
    IN le(1)

\* ReadVarInt(buffer, 0): one byte below 253, or a 253/254/255 marker followed
\* by a 2/4/8-byte little-endian integer
ReadVarInt(buffer) ==
    IF Len(buffer) = 0 THEN [ok |-> FALSE, vi |-> NilVarInt]
    ELSE LET first == buffer[1]
             width == IF first < 253 THEN 0
                      ELSE IF first = 253 THEN 2
                      ELSE IF first = 254 THEN 4 ELSE 8
         IN IF Len(buffer) < 1 + width THEN [ok |-> FALSE, vi |-> NilVarInt]
            ELSE IF width = 0 THEN [ok |-> TRUE, vi |-> [Value |-> first, Size |-> 1]]
            ELSE [ok |-> TRUE,
                  vi |-> [Value |-> LittleEndian(SubSeq(buffer, 2, 1 + width)),
                          Size |-> 1 + width]]

\* three bytes, big-endian
DecodeUint24(bytes) == (bytes[1] * 256 + bytes[2]) * 256 + bytes[3]

(***************************************************************************)
(* Keccak256.  The digest is a deterministic function of the input bytes:  *)
(* a 15-bit polynomial checksum spread over HashSize bytes.  The inputs    *)
(* the model draws are chosen so that distinct inputs have distinct        *)
(* digests (KeccakInjective below).                                        *)
(***************************************************************************)
RECURSIVE Pow31(_)
Pow31(n) ==
    IF n = 0 THEN 1
    ELSE LET half == Pow31(n \div 2)
         IN (((half * half) % 32749) * (IF n % 2 = 1 THEN 31 ELSE 1)) % 32749

RECURSIVE Poly(_, _, _)
Poly(bytes, lo, hi) ==
    IF lo > hi THEN 0
    ELSE IF lo = hi THEN bytes[lo] + 1
    ELSE LET mid == (lo + hi) \div 2
         IN (Poly(bytes, lo, mid) * Pow31(hi - mid) + Poly(bytes, mid + 1, hi)) % 32749

Checksum(bytes) == (7 * Pow31(Len(bytes)) + Poly(bytes, 1, Len(bytes))) % 32749

DigestOf(h) ==
    [k \in 1..HashSize |-> IF k = 1 THEN h \div 256
                           ELSE IF k = 2 THEN h % 256
                           ELSE (h + 37 * k) % 256]

Keccak256(bytes) == DigestOf(Checksum(bytes))

(***************************************************************************)
(* Trie node model.                                                        *)
(***************************************************************************)
NodeReferenceEmpty == [kind |-> "empty"]

\* NewNodeReference(store, node, hash): exactly one of node and hash is given
NewHashReference(hash) == [kind |-> "hash", hash |-> hash]

NewNodeReference(node) == [kind |-> "embedded", node |-> node]

IsEmpty(ref) == ref.kind = "empty"

\* nil (the empty sequence) unless the reference holds a hash
GetHash(ref) == IF ref.kind = "hash" THEN ref.hash ELSE << >>

NewTrieFull(sharedPath, value, left, right, valueLength, valueHash, childrenSize) ==
    [sharedPath |-> sharedPath, value |-> value, left |-> left, right |-> right,
     valueLength |-> valueLength, valueHash |-> valueHash,
     childrenSize |-> childrenSize]

GetValue(node) == node.value

NilTrie == NewTrieFull(<< >>, << >>, NodeReferenceEmpty, NodeReferenceEmpty, 0, << >>,
                       NilVarInt)

ParseError(why) == [ok |-> FALSE, err |-> why, node |-> NilTrie]

ParseOk(node) == [ok |-> TRUE, err |-> "", node |-> node]

(***************************************************************************)
(* Node deserializer.                                                      *)
(***************************************************************************)
calculateEncodedLength(bitLength) ==
    IF bitLength = 0 THEN 0 ELSE (bitLength + 7) \div 8

\* Reads the ceil(pathLen/8) bytes of the encoded path from the reader `from`.
\* `rest` is the caller's reader afterwards: what `from` has left when `from`
\* is the caller's reader (isCallerBuf), and callerRest otherwise.
ReadEncodedPath(from, pathLen, callerRest, isCallerBuf) ==
    LET encodedLen == calculateEncodedLength(pathLen)
        r == Read(from, encodedLen)
    IN IF encodedLen = 0
       THEN [ok |-> TRUE, err |-> "", path |-> TrieKeySliceEmpty, rest |-> callerRest]
       ELSE IF ~r.ok
       THEN [ok |-> FALSE, err |-> "read encoded path", path |-> << >>, rest |-> callerRest]
       ELSE [ok |-> TRUE, err |-> "",
             path |-> TrieKeySliceFromEncodedFull(r.data, pathLen),
             rest |-> IF isCallerBuf THEN r.rest ELSE callerRest]

\* deserializeSharedPath(buf).  `rest` is the caller's reader after the call.
\* In the VarInt branch everything left is read out of the caller's reader and
\* the path is then read from a new reader held in the function's own
\* variable: the caller's reader stays exhausted.
deserializeSharedPath(buf) ==
    LET lb == ReadByte(buf)
        lengthByte == lb.b
    IN IF ~lb.ok
       THEN [ok |-> FALSE, err |-> "EOF", path |-> << >>, rest |-> buf]
       ELSE IF lengthByte <= 31
       THEN ReadEncodedPath(lb.rest, lengthByte + 1, lb.rest, TRUE)
       ELSE IF lengthByte >= 32 /\ lengthByte <= 254
       THEN ReadEncodedPath(lb.rest, lengthByte + 128, lb.rest, TRUE)
       ELSE LET remaining == lb.rest
                vi == ReadVarInt(remaining)
            IN IF Len(remaining) = 0
               THEN [ok |-> FALSE, err |-> "EOF", path |-> << >>, rest |-> << >>]
               ELSE IF ~vi.ok
               THEN [ok |-> FALSE, err |-> "read varint for path length",
                     path |-> << >>, rest |-> << >>]
               ELSE ReadEncodedPath(Drop(remaining, vi.vi.Size), vi.vi.Value,
                                    << >>, FALSE)

RECURSIVE fromMessageRSKIP107(_)

\* variant: the embedded bit alone announces an embedded child section
deserializeNodeReference_EmbeddedBitAlone(buf, present, embedded, side) ==
    IF ~present /\ ~embedded THEN [ok |-> TRUE, err |-> "", ref |-> NodeReferenceEmpty, rest |-> buf]
    ELSE IF embedded
    THEN LET lb == ReadByte(buf)
             body == Read(lb.rest, lb.b)
             node == fromMessageRSKIP107(body.data)
         IN IF ~lb.ok
            THEN [ok |-> FALSE, err |-> "read " \o side \o " embedded length",
                  ref |-> NodeReferenceEmpty, rest |-> buf]
            ELSE IF ~body.ok
            THEN [ok |-> FALSE, err |-> "read " \o side \o " embedded node",
                  ref |-> NodeReferenceEmpty, rest |-> buf]
            ELSE IF ~node.ok
            THEN [ok |-> FALSE, err |-> "parse " \o side \o " embedded node",
                  ref |-> NodeReferenceEmpty, rest |-> buf]
            ELSE [ok |-> TRUE, err |-> "", ref |-> NewNodeReference(node.node),
                  rest |-> body.rest]
    ELSE LET h == Read(buf, HashSize)
         IN IF ~h.ok
            THEN [ok |-> FALSE, err |-> "read " \o side \o " hash",
                  ref |-> NodeReferenceEmpty, rest |-> buf]
            ELSE [ok |-> TRUE, err |-> "", ref |-> NewHashReference(h.data),
                  rest |-> h.rest]

\* one child section of an RSKIP-107 node (the left and the right section
\* are read by the same steps)
deserializeNodeReference(buf, present, embedded, side) ==
    IF ~present THEN [ok |-> TRUE, err |-> "", ref |-> NodeReferenceEmpty, rest |-> buf]
    ELSE IF embedded
    THEN LET lb == ReadByte(buf)
             body == Read(lb.rest, lb.b)
             node == fromMessageRSKIP107(body.data)
         IN IF ~lb.ok
            THEN [ok |-> FALSE, err |-> "read " \o side \o " embedded length",
                  ref |-> NodeReferenceEmpty, rest |-> buf]
            ELSE IF ~body.ok
            THEN [ok |-> FALSE, err |-> "read " \o side \o " embedded node",
                  ref |-> NodeReferenceEmpty, rest |-> buf]
            ELSE IF ~node.ok
            THEN [ok |-> FALSE, err |-> "parse " \o side \o " embedded node",
                  ref |-> NodeReferenceEmpty, rest |-> buf]
            ELSE [ok |-> TRUE, err |-> "", ref |-> NewNodeReference(node.node),
                  rest |-> body.rest]
    ELSE LET h == Read(buf, HashSize)
         IN IF ~h.ok
            THEN [ok |-> FALSE, err |-> "read " \o side \o " hash",
                  ref |-> NodeReferenceEmpty, rest |-> buf]
            ELSE [ok |-> TRUE, err |-> "", ref |-> NewHashReference(h.data),
                  rest |-> h.rest]

\* the children-size VarInt, read only when a child is present
deserializeChildrenSize(buf, anyChild) ==
    IF ~anyChild THEN [ok |-> TRUE, vi |-> NilVarInt, rest |-> buf]
    ELSE LET vi == ReadVarInt(buf)
         IN IF ~vi.ok THEN [ok |-> FALSE, vi |-> NilVarInt, rest |-> buf]
            ELSE [ok |-> TRUE, vi |-> vi.vi, rest |-> Drop(buf, vi.vi.Size)]

\* variant: the length of an inline value is not recorded
deserializeValue_NoLength(buf, hasLongVal) ==
    IF hasLongVal
    THEN LET vh == Read(buf, HashSize)
             lv == Read(vh.rest, 3)
         IN IF ~vh.ok
            THEN [ok |-> FALSE, err |-> "read value hash", value |-> << >>,
                  valueLength |-> 0, valueHash |-> << >>]
            ELSE IF ~lv.ok
            THEN [ok |-> FALSE, err |-> "read value length", value |-> << >>,
                  valueLength |-> 0, valueHash |-> << >>]
            ELSE [ok |-> TRUE, err |-> "", value |-> << >>,
                  valueLength |-> DecodeUint24(lv.data), valueHash |-> vh.data]
    ELSE [ok |-> TRUE, err |-> "", value |-> buf, valueLength |-> 0,
          valueHash |-> << >>]

\* the value section of an RSKIP-107 node
deserializeValue(buf, hasLongVal) ==
    IF hasLongVal
    THEN LET vh == Read(buf, HashSize)
             lv == Read(vh.rest, 3)
         IN IF ~vh.ok
            THEN [ok |-> FALSE, err |-> "read value hash", value |-> << >>,
                  valueLength |-> 0, valueHash |-> << >>]
            ELSE IF ~lv.ok
            THEN [ok |-> FALSE, err |-> "read value length", value |-> << >>,
                  valueLength |-> 0, valueHash |-> << >>]
            ELSE [ok |-> TRUE, err |-> "", value |-> << >>,
                  valueLength |-> DecodeUint24(lv.data), valueHash |-> vh.data]
    ELSE [ok |-> TRUE, err |-> "", value |-> buf, valueLength |-> Len(buf),
          valueHash |-> << >>]

fromMessageRSKIP107(message) ==
    IF Len(message) < 1 THEN ParseError("message too short")
    ELSE
    LET flags == message[1]
        hasLongVal == HasFlag(flags, 32)
        sharedPrefixPresent == HasFlag(flags, 16)
        leftNodePresent == HasFlag(flags, 8)
        rightNodePresent == HasFlag(flags, 4)
        leftNodeEmbedded == HasFlag(flags, 2)
        rightNodeEmbedded == HasFlag(flags, 1)
        sp == IF sharedPrefixPresent THEN deserializeSharedPath(Tail(message))
              ELSE [ok |-> TRUE, err |-> "", path |-> TrieKeySliceEmpty,
                    rest |-> Tail(message)]
        left == deserializeNodeReference(sp.rest, leftNodePresent, leftNodeEmbedded,
                                         "left")
        right == deserializeNodeReference(left.rest, rightNodePresent,
                                          rightNodeEmbedded, "right")
        cs == deserializeChildrenSize(right.rest, leftNodePresent \/ rightNodePresent)
        val == deserializeValue(cs.rest, hasLongVal)
    IN IF ~sp.ok THEN ParseError("deserialize shared path")
       ELSE IF ~left.ok THEN ParseError(left.err)
       ELSE IF ~right.ok THEN ParseError(right.err)
       ELSE IF ~cs.ok THEN ParseError("read children size")
       ELSE IF ~val.ok THEN ParseError(val.err)
       ELSE ParseOk(NewTrieFull(sp.path, val.value, left.ref, right.ref,
                                val.valueLength, val.valueHash, cs.vi))

\* one child hash of an Orchid node, at byte offset current
orchidHash(message, current, present, side) ==
    IF ~present THEN [ok |-> TRUE, err |-> "", ref |-> NodeReferenceEmpty,
                      current |-> current]
    ELSE IF Len(message) - current < HashSize
    THEN [ok |-> FALSE, err |-> "message too short for " \o side \o " hash",
          ref |-> NodeReferenceEmpty, current |-> current]
    ELSE [ok |-> TRUE, err |-> "",
          ref |-> NewHashReference(SubSeq(message, current + 1, current + HashSize)),
          current |-> current + HashSize]

\* fromMessageOrchid(message, nil): no store, so a long value is never retrieved
fromMessageOrchid(message) ==
    IF Len(message) < 6 THEN ParseError("orchid message too short")
    ELSE
    LET arity == message[1]
        flags == message[2]
        hasLongVal == HasFlag(flags, 2)
        bhashes == message[3] * 256 + message[4]
        lshared == message[5] * 256 + message[6]
        lencoded == calculateEncodedLength(lshared)
        pathShort == lshared > 0 /\ Len(message) - 6 < lencoded
        afterPath == IF lshared > 0 THEN 6 + lencoded ELSE 6
        sharedPath == IF lshared > 0 /\ ~pathShort
                      THEN TrieKeySliceFromEncoded(message, 6, lshared, lencoded)
                      ELSE TrieKeySliceEmpty
        left == orchidHash(message, afterPath, HasFlag(bhashes, 1), "left")
        right == orchidHash(message, left.current, HasFlag(bhashes, 2), "right")
        current == right.current
        remaining == Len(message) - current
    IN IF arity # 2 THEN ParseError("invalid arity")
       ELSE IF pathShort THEN ParseError("message too short for shared path")
       ELSE IF ~left.ok THEN ParseError(left.err)
       ELSE IF ~right.ok THEN ParseError(right.err)
       ELSE IF hasLongVal
       THEN IF remaining < HashSize THEN ParseError("message too short for value hash")
            ELSE ParseOk(NewTrieFull(sharedPath, << >>, left.ref, right.ref, 0,
                                     SubSeq(message, current + 1, current + HashSize),
                                     NilVarInt))
       ELSE ParseOk(NewTrieFull(sharedPath, Drop(message, current), left.ref,
                                right.ref, remaining, << >>, NilVarInt))

\* variant: every first byte up to the arity 2 selects the Orchid parser
FromMessage_ArityAtMostTwo(message) ==
    IF Len(message) = 0 THEN ParseError("empty message")
    ELSE IF message[1] <= 2 THEN fromMessageOrchid(message)
    ELSE fromMessageRSKIP107(message)

FromMessage(message) ==
    IF Len(message) = 0 THEN ParseError("empty message")
    ELSE IF message[1] = 2 THEN fromMessageOrchid(message)
    ELSE fromMessageRSKIP107(message)

(***************************************************************************)
(* RLP byte-string decoding, as rlp.DecodeBytes(b, &[]byte) does it: one   *)
(* canonical string item and nothing after it.                             *)
(***************************************************************************)
BigEndian(bytes) ==
    LET RECURSIVE be(_, _)
        be(k, acc) == IF k > Len(bytes) THEN acc ELSE be(k + 1, acc * 256 + bytes[k])
    IN be(1, 0)

RlpDecodeBytes(b) ==
    LET bad == [ok |-> FALSE, data |-> << >>]
    IN IF Len(b) = 0 THEN bad
       ELSE IF b[1] < 128
       THEN IF Len(b) = 1 THEN [ok |-> TRUE, data |-> <<b[1]>>] ELSE bad
       ELSE IF b[1] < 184
       THEN LET size == b[1] - 128
            IN IF Len(b) # 1 + size THEN bad
               ELSE IF size = 1 /\ b[2] < 128 THEN bad
               ELSE [ok |-> TRUE, data |-> Tail(b)]
       ELSE IF b[1] < 192
       THEN LET lenlen == b[1] - 183
                size == BigEndian(SubSeq(b, 2, 1 + lenlen))
            IN IF Len(b) < 1 + lenlen THEN bad
               ELSE IF b[2] = 0 \/ size < 56 THEN bad
               ELSE IF Len(b) # 1 + lenlen + size THEN bad
               ELSE [ok |-> TRUE, data |-> Drop(b, 1 + lenlen)]
       ELSE bad

(***************************************************************************)
(* Trie key mapper.                                                        *)
(***************************************************************************)
DomainPrefix == <<0>>

StoragePrefix == <<0>>

CodePrefix == <<128>>

SecureKeyPrefix(k) == SubSeq(Keccak256(k), 1, SecureKeySize)

\* variant: every zero byte is removed, wherever it stands
stripLeadingZeros_DropsEveryZero(data) ==
    LET nonZero == {i \in 1..Len(data) : data[i] # 0}
        nth(k) == CHOOSE i \in nonZero : Cardinality({j \in nonZero : j < i}) = k - 1
    IN [k \in 1..Cardinality(nonZero) |-> data[nth(k)]]

\* variant: an all-zero input is reduced to a single zero byte
stripLeadingZeros_KeepsOneZero(data) ==
    LET nonZero == {i \in 1..Len(data) : data[i] # 0}
    IN IF nonZero = {} THEN <<0>>
       ELSE SubSeq(data, CHOOSE i \in nonZero : \A j \in nonZero : i <= j, Len(data))

\* everything from the first non-zero byte on; empty when all bytes are zero
stripLeadingZeros(data) ==
    LET nonZero == {i \in 1..Len(data) : data[i] # 0}
    IN IF nonZero = {} THEN << >>
       ELSE SubSeq(data, CHOOSE i \in nonZero : \A j \in nonZero : i <= j, Len(data))

GetAccountKey(addr) == DomainPrefix \o SecureKeyPrefix(addr) \o addr

GetCodeKey(addr) == GetAccountKey(addr) \o CodePrefix

GetAccountStoragePrefixKey(addr) == GetAccountKey(addr) \o StoragePrefix

GetAccountStorageKey(addr, slot) ==
    GetAccountStoragePrefixKey(addr) \o SecureKeyPrefix(slot) \o stripLeadingZeros(slot)

(***************************************************************************)
(* Proof verifier: one iteration of verifyProof's traversal loop.          *)
(* Returns where the loop stands afterwards: state "Walking" with the new  *)
(* current node and cursor, or a terminal state with the value (Found,     *)
(* NotFound) or the error (Error) that verifyProof returns.                *)
(***************************************************************************)
GetNode(ref) == IF ref.kind = "embedded" THEN ref.node ELSE NilTrie

HasNode(ref) == ref.kind = "embedded"

StepResult(state, node, pos, value, err) ==
    [state |-> state, node |-> node, keyPos |-> pos, value |-> value, err |-> err]

\* variant: a diverging shared path is reported like a key that is too short
matchSharedPath_DivergenceIsError(sharedPath, slice, pos) ==
    IF SliceLength(sharedPath) = 0 THEN "matches"
    ELSE IF SliceLength(slice) - pos < SliceLength(sharedPath) THEN "short"
    ELSE IF \E i \in 0..(SliceLength(sharedPath) - 1) :
               SliceGet(slice, pos + i) # SliceGet(sharedPath, i)
    THEN "short"
    ELSE "matches"

\* variant: a key too short for the shared path is taken for a divergence
matchSharedPath_ShortIsDivergence(sharedPath, slice, pos) ==
    IF SliceLength(sharedPath) = 0 THEN "matches"
    ELSE IF SliceLength(slice) - pos < SliceLength(sharedPath) THEN "diverges"
    ELSE IF \E i \in 0..(SliceLength(sharedPath) - 1) :
               SliceGet(slice, pos + i) # SliceGet(sharedPath, i)
    THEN "diverges"
    ELSE "matches"

\* the shared-path check of one iteration: "short", "diverges" or "matches"
matchSharedPath(sharedPath, slice, pos) ==
    IF SliceLength(sharedPath) = 0 THEN "matches"
    ELSE IF SliceLength(slice) - pos < SliceLength(sharedPath) THEN "short"
    ELSE IF \E i \in 0..(SliceLength(sharedPath) - 1) :
               SliceGet(slice, pos + i) # SliceGet(sharedPath, i)
    THEN "diverges"
    ELSE "matches"

\* variant: a hash that is not in the proof set counts as an absent child
followChild_MissingIsAbsent(node, childRef, pos, map) ==
    IF IsEmpty(childRef) THEN StepResult("NotFound", node, pos, << >>, "")
    ELSE IF GetHash(childRef) = << >>
    THEN IF ~HasNode(childRef)
         THEN StepResult("Error", node, pos, << >>, "missing embedded child node")
         ELSE StepResult("Walking", GetNode(childRef), pos, << >>, "")
    ELSE IF GetHash(childRef) \notin DOMAIN map
    THEN StepResult("NotFound", node, pos, << >>, "")
    ELSE StepResult("Walking", map[GetHash(childRef)], pos, << >>, "")

\* variant: every non-empty child, embedded or not, is looked up in the proof set
followChild_AlwaysLookup(node, childRef, pos, map) ==
    IF IsEmpty(childRef) THEN StepResult("NotFound", node, pos, << >>, "")
    ELSE IF GetHash(childRef) \notin DOMAIN map
    THEN StepResult("Error", node, pos, << >>, "missing proof node")
    ELSE StepResult("Walking", map[GetHash(childRef)], pos, << >>, "")

\* variant: the cursor is not moved past the bit that chose the child
followChild_NoAdvance(node, childRef, pos, map) ==
    IF IsEmpty(childRef) THEN StepResult("NotFound", node, pos - 1, << >>, "")
    ELSE IF GetHash(childRef) = << >>
    THEN IF ~HasNode(childRef)
         THEN StepResult("Error", node, pos - 1, << >>, "missing embedded child node")
         ELSE StepResult("Walking", GetNode(childRef), pos - 1, << >>, "")
    ELSE IF GetHash(childRef) \notin DOMAIN map
    THEN StepResult("Error", node, pos - 1, << >>, "missing proof node")
    ELSE StepResult("Walking", map[GetHash(childRef)], pos - 1, << >>, "")

\* following the child reference chosen by the next key bit
followChild(node, childRef, pos, map) ==
    IF IsEmpty(childRef) THEN StepResult("NotFound", node, pos, << >>, "")
    ELSE IF GetHash(childRef) = << >>
    THEN IF ~HasNode(childRef)
         THEN StepResult("Error", node, pos, << >>, "missing embedded child node")
         ELSE StepResult("Walking", GetNode(childRef), pos, << >>, "")
    ELSE IF GetHash(childRef) \notin DOMAIN map
    THEN StepResult("Error", node, pos, << >>, "missing proof node")
    ELSE StepResult("Walking", map[GetHash(childRef)], pos, << >>, "")

verifyStep(node, pos, slice, map) ==
    LET sharedPath == node.sharedPath
        m == matchSharedPath(sharedPath, slice, pos)
        pos1 == pos + SliceLength(sharedPath)
    IN IF m = "short"
       THEN StepResult("Error", node, pos, << >>, "key too short for shared path")
       ELSE IF m = "diverges" THEN StepResult("NotFound", node, pos, << >>, "")
       ELSE IF pos1 >= SliceLength(slice)
       THEN StepResult("Found", node, pos1, GetValue(node), "")
       ELSE followChild(node,
                        IF SliceGet(slice, pos1) = 0 THEN node.left ELSE node.right,
                        pos1 + 1, map)

\* nodeMap[string(nodeHash)] = nodeEntry{...}
MapPut(map, h, node) ==
    [x \in (DOMAIN map) \cup {h} |-> IF x = h THEN node ELSE map[x]]

EmptyMap == [x \in {} |-> NilTrie]

(***************************************************************************)
(* Inputs.  Serialized nodes are written out byte by byte; a child hash is *)
(* the digest of the child's serialized bytes.                             *)
(***************************************************************************)
MaxProof == 2

RlpEncode(data) ==
    IF Len(data) = 1 /\ data[1] < 128 THEN data
    ELSE IF Len(data) < 56 THEN <<128 + Len(data)>> \o data
    ELSE <<184, Len(data)>> \o data

\* bits packed into bytes, most significant bit first, zero padded
PackBits(bits) ==
    [k \in 1..((Len(bits) + 7) \div 8) |->
        LET bitAt(j) == IF 8 * (k - 1) + j <= Len(bits) THEN bits[8 * (k - 1) + j] ELSE 0
        IN 128 * bitAt(1) + 64 * bitAt(2) + 32 * bitAt(3) + 16 * bitAt(4)
           + 8 * bitAt(5) + 4 * bitAt(6) + 2 * bitAt(7) + bitAt(8)]

Addr1 == [k \in 1..AddressKeySize |-> 17]

Addr2 == [k \in 1..AddressKeySize |-> (205 + k) % 256]

Slot0 == Zeros(HashSize)

Slot1 == Zeros(HashSize - 1) \o <<1>>

\* ---- a trie over one-byte keys ----
\* leaf under RootT's left child: shared path 0110, value AA (key 1010 0110)
LeafL == <<16, 3, 96, 170>>

\* leaf embedded as RootT's right child: shared path 1100, value BB (key 1011 1100)
EmbR == <<16, 3, 192, 187>>

\* root: shared path 101, left by hash, right embedded, children size 5, no value
RootT == <<16 + 8 + 4 + 1, 2, 160>> \o Keccak256(LeafL) \o <<Len(EmbR)>> \o EmbR \o <<5>>

\* a node whose two child hashes are its own digest, children size 1, value 06
CycleNode == <<8 + 4>> \o DigestOf(403) \o DigestOf(403) \o <<1, 6>>

\* a 40-bit shared path, whose length only the VarInt form encodes; value CC
Key40 == <<166, 1, 2, 3, 4>>

NodeV == <<16, 255, 40>> \o Key40 \o <<204>>

\* Orchid format: arity 2, no flags, no children, 8-bit shared path A6, value DD
OrchidLeaf == <<2, 0, 0, 0, 0, 8, 166, 221>>

\* an RLP string header announcing two bytes, one supplied
BadRlp == <<130, 1>>

\* ---- well-formed nodes and the same nodes cut short inside a section ----
\* 12-bit shared path 1010 0110 0000 (two bytes), value 99
Node12 == <<16, 11, 166, 0, 153>>

\* left child by hash, children size 1, no value
NodeLeftHash == <<8>> \o DigestOf(9) \o <<1>>

\* left child embedded (LeafL, four bytes), children size 1, no value
NodeLeftEmb == <<8 + 2, 4>> \o LeafL \o <<1>>

\* long value: value hash and the three-byte length 0 1 0
NodeLongVal == <<32>> \o DigestOf(9) \o <<0, 1, 0>>

\* Orchid: 12-bit shared path, no children, value 99
Orchid12 == <<2, 0, 0, 0, 0, 12, 166, 0, 153>>

\* Orchid: left child hash, no value
OrchidLeft == <<2, 0, 0, 1, 0, 0>> \o DigestOf(9)

\* Orchid: long value hash
OrchidLongVal == <<2, 2, 0, 0, 0, 0>> \o DigestOf(9)

\* shared path: one of its two bytes left / none left
TruncPath == Take(Node12, 3)

NoPath == Take(Node12, 2)

\* child hash: three of its bytes left / none left
TruncHash == Take(NodeLeftHash, 4)

NoHash == Take(NodeLeftHash, 1)

\* embedded child: two of the four bytes its length byte announces
TruncEmb == Take(NodeLeftEmb, 4)

\* long-value hash: three of its bytes left
TruncValueHash == Take(NodeLongVal, 4)

\* long-value length: two of its three bytes left / none left
TruncValueLen == Take(NodeLongVal, 1 + HashSize + 2)

NoValueLen == Take(NodeLongVal, 1 + HashSize)

OrchidTruncPath == Take(Orchid12, 7)

OrchidTruncHash == Take(OrchidLeft, 9)

OrchidTruncValueHash == Take(OrchidLongVal, 9)

TruncatedNodes ==
    {TruncPath, NoPath, TruncHash, NoHash, TruncEmb, TruncValueHash, TruncValueLen,
     NoValueLen, OrchidTruncPath, OrchidTruncHash, OrchidTruncValueHash}

\* ---- account and storage nodes ----
\* one leaf holding the whole 248-bit account key of Addr1
AcctLeaf1 == <<16, 120>> \o GetAccountKey(Addr1) \o <<238, 1>>

\* one leaf holding the whole 336-bit storage key of (Addr1, Slot0)
StorLeaf0 == <<16, 208>> \o GetAccountStorageKey(Addr1, Slot0) \o <<42>>

\* the bits of (Addr1, Slot1)'s storage key below the account node's left child
StorBits1 ==
    SubSeq(TrieKeySliceFromKey(GetAccountStorageKey(Addr1, Slot1)),
           8 * Len(GetAccountKey(Addr1)) + 2,
           8 * Len(GetAccountStorageKey(Addr1, Slot1)))

\* storage leaf under the account node: 95-bit shared path (VarInt form), value 2B
StorChild1 == <<16, 255, Len(StorBits1)>> \o PackBits(StorBits1) \o <<43>>

\* account node of Addr1: 248-bit shared path, left child by hash, account value
AcctNode == <<16 + 8, 120>> \o GetAccountKey(Addr1) \o Keccak256(StorChild1)
            \o <<3>> \o <<238, 1>>

BogusRoot == Zeros(HashSize)

RawFamily ==
    [entries |-> {"VerifyProofValue"},
     nodes |-> {RootT, LeafL, CycleNode, NodeV},
     blobs |-> {BadRlp},
     roots |-> {Keccak256(RootT), Keccak256(CycleNode), Keccak256(NodeV),
                Keccak256(RlpEncode(RootT)), BogusRoot},
     keys |-> {<<166>>, <<188>>, <<167>>, <<38>>, <<166, 0>>, Key40},
     addresses |-> {Addr1},
     slots |-> {Slot0},
     expected |-> {<<170>>}]

StateFamily ==
    [entries |-> {"VerifyAccountProof", "VerifyStorageProof"},
     nodes |-> {AcctLeaf1, StorLeaf0, AcctNode, StorChild1},
     blobs |-> {BadRlp},
     roots |-> {Keccak256(AcctLeaf1), Keccak256(StorLeaf0), Keccak256(AcctNode),
                BogusRoot},
     keys |-> {<< >>},
     addresses |-> {Addr1, Addr2},
     slots |-> {Slot0, Slot1},
     expected |-> {<< >>}]

MalformedFamily ==
    [entries |-> {"VerifyProofValue"},
     nodes |-> TruncatedNodes \cup {Node12},
     blobs |-> {},
     roots |-> {Keccak256(Node12)},
     keys |-> {<<166, 0>>},
     addresses |-> {Addr1},
     slots |-> {Slot0},
     expected |-> {<<153>>}]

\* expected values next to keys that are absent (nothing returned) or present
CompareFamily ==
    [entries |-> {"VerifyProofValue"},
     nodes |-> {LeafL, OrchidLeaf},
     blobs |-> {},
     roots |-> {Keccak256(LeafL), Keccak256(OrchidLeaf)},
     keys |-> {<<96>>, <<166>>},
     addresses |-> {Addr1},
     slots |-> {Slot0},
     expected |-> {<< >>, <<221>>}]

Families == {RawFamily, StateFamily, MalformedFamily, CompareFamily}

FamilyBlobs(f) == {RlpEncode(n) : n \in f.nodes} \cup f.blobs

AllNodes == UNION {f.nodes : f \in Families} \cup {EmbR}

\* distinct serialized nodes have distinct digests, and so have their wrappings
KeccakInjective ==
    \A m, n \in AllNodes \cup {RlpEncode(x) : x \in AllNodes} :
        Keccak256(m) = Keccak256(n) => m = n

SeqsUpTo(S, n) == UNION {[1..k -> S] : k \in 0..n}

NoStep == [taken |-> FALSE, node |-> NilTrie, keyPos |-> 0]

NoResult == [Valid |-> FALSE, Value |-> << >>, Error |-> "", Identity |-> << >>,
             Match |-> FALSE]

\* nothing deserialized, no key derived
NoParse == [done |-> FALSE, ok |-> FALSE, err |-> "", node |-> NilTrie]

NoKey == [fn |-> "", key |-> << >>]

(***************************************************************************)
(* The calls.  pc is the caller's position: "call" (entered, nothing done),*)
(* "index" (in the loop over proofNodes), "walk" (in the traversal loop),  *)
(* "return" (verifyProof has returned to the wrapper), "done".             *)
(***************************************************************************)
Init ==
    /\ \E f \in Families :
          /\ entry \in f.entries
          /\ stateRoot \in f.roots
          /\ address \in f.addresses
          /\ storageKey \in f.slots
          /\ key \in f.keys
          /\ expectedValue \in f.expected
          /\ proofNodes \in SeqsUpTo(FamilyBlobs(f), MaxProof)
    /\ (entry # "VerifyStorageProof" => storageKey = Slot0)
    /\ pc = "call"
    /\ idx = 0
    /\ nodeMap = EmptyMap
    /\ keySlice = << >>
    /\ currentNode = NilTrie
    /\ keyPos = 0
    /\ iterations = 0
    /\ lastStep = NoStep
    /\ retValue = << >>
    /\ retErr = ""
    /\ result = NoResult
    /\ goErr = ""
    /\ msg = << >>
    /\ trie = NoParse
    /\ mapped = NoKey

\* the trie key the entry point hands to verifyProof
TrieKeyOf(e, addr, slot, k) ==
    IF e = "VerifyAccountProof" THEN GetAccountKey(addr)
    ELSE IF e = "VerifyStorageProof" THEN GetAccountStorageKey(addr, slot)
    ELSE k

\* the entry point derives the key and verifyProof checks for an empty proof
Enter ==
    /\ pc = "call"
    /\ key' = TrieKeyOf(entry, address, storageKey, key)
    /\ IF Len(proofNodes) = 0
       THEN /\ retErr' = "empty proof"
            /\ pc' = "return"
       ELSE /\ retErr' = retErr
            /\ pc' = "index"
    /\ UNCHANGED <<entry, stateRoot, address, storageKey, expectedValue, proofNodes,
                   idx, nodeMap, keySlice, currentNode, keyPos, iterations, lastStep,
                   retValue, result, goErr>>
    /\ UNCHANGED codecVars

\* variant: the node is indexed by the hash of the RLP-wrapped blob
indexNode_HashOfWrapper(rlpNode) ==
    LET dec == RlpDecodeBytes(rlpNode)
        parsed == FromMessage(dec.data)
    IN IF ~dec.ok THEN [ok |-> FALSE, err |-> "failed to RLP decode proof node",
                        hash |-> << >>, node |-> NilTrie]
       ELSE IF ~parsed.ok THEN [ok |-> FALSE, err |-> "failed to parse proof node",
                                hash |-> << >>, node |-> NilTrie]
       ELSE [ok |-> TRUE, err |-> "", hash |-> Keccak256(rlpNode),
             node |-> parsed.node]

\* variant: a blob that cannot be unwrapped or parsed is passed over
indexNode_SkipsBadBlob(rlpNode) ==
    LET dec == RlpDecodeBytes(rlpNode)
        parsed == FromMessage(dec.data)
    IN IF ~dec.ok \/ ~parsed.ok
       THEN [ok |-> TRUE, err |-> "", hash |-> << >>, node |-> NilTrie]
       ELSE [ok |-> TRUE, err |-> "", hash |-> Keccak256(dec.data),
             node |-> parsed.node]

\* what one iteration of the indexing loop does with proofNodes[i]
indexNode(rlpNode) ==
    LET dec == RlpDecodeBytes(rlpNode)
        parsed == FromMessage(dec.data)
    IN IF ~dec.ok THEN [ok |-> FALSE, err |-> "failed to RLP decode proof node",
                        hash |-> << >>, node |-> NilTrie]
       ELSE IF ~parsed.ok THEN [ok |-> FALSE, err |-> "failed to parse proof node",
                                hash |-> << >>, node |-> NilTrie]
       ELSE [ok |-> TRUE, err |-> "", hash |-> Keccak256(dec.data),
             node |-> parsed.node]

IndexNode ==
    /\ pc = "index"
    /\ idx < Len(proofNodes)
    /\ LET e == indexNode(proofNodes[idx + 1])
       IN IF ~e.ok
          THEN /\ retErr' = e.err
               /\ pc' = "return"
               /\ UNCHANGED <<idx, nodeMap>>
          ELSE /\ nodeMap' = MapPut(nodeMap, e.hash, e.node)
               /\ idx' = idx + 1
               /\ UNCHANGED <<retErr, pc>>
    /\ UNCHANGED <<entry, stateRoot, address, storageKey, key, expectedValue,
                   proofNodes, keySlice, currentNode, keyPos, iterations, lastStep,
                   retValue, result, goErr>>
    /\ UNCHANGED codecVars

\* variant: the last blob is taken for the root (proofs come leaf-to-root), if
\* its hash is the expected one
findRoot_LastIsRoot(map, expectedHash, proof) ==
    LET last == indexNode(proof[Len(proof)])
    IN IF Len(proof) > 0 /\ last.ok /\ last.hash = expectedHash
          /\ expectedHash \in DOMAIN map
       THEN [ok |-> TRUE, node |-> last.node]
       ELSE [ok |-> FALSE, node |-> NilTrie]

\* rootEntry, ok := nodeMap[string(expectedHash)]
findRoot(map, expectedHash, proof) ==
    IF expectedHash \in DOMAIN map
    THEN [ok |-> TRUE, node |-> map[expectedHash]]
    ELSE [ok |-> FALSE, node |-> NilTrie]

\* after the indexing loop: the key's bits, then the root by its hash
FindRoot ==
    /\ pc = "index"
    /\ idx = Len(proofNodes)
    /\ keySlice' = TrieKeySliceFromKey(key)
    /\ LET root == findRoot(nodeMap, stateRoot, proofNodes)
       IN IF ~root.ok
          THEN /\ retErr' = "root hash not found in proof nodes"
               /\ pc' = "return"
               /\ UNCHANGED currentNode
          ELSE /\ currentNode' = root.node
               /\ pc' = "walk"
               /\ UNCHANGED retErr
    /\ keyPos' = 0
    /\ UNCHANGED <<entry, stateRoot, address, storageKey, key, expectedValue,
                   proofNodes, idx, nodeMap, iterations, lastStep, retValue, result,
                   goErr>>
    /\ UNCHANGED codecVars

\* one iteration of the traversal loop
Walk ==
    /\ pc = "walk"
    /\ LET r == verifyStep(currentNode, keyPos, keySlice, nodeMap)
       IN /\ currentNode' = r.node
          /\ keyPos' = r.keyPos
          /\ retValue' = r.value
          /\ retErr' = r.err
          /\ pc' = IF r.state = "Walking" THEN "walk" ELSE "return"
    /\ lastStep' = [taken |-> TRUE, node |-> currentNode, keyPos |-> keyPos]
    /\ iterations' = iterations + 1
    /\ UNCHANGED <<entry, stateRoot, address, storageKey, key, expectedValue,
                   proofNodes, idx, nodeMap, keySlice, result, goErr>>
    /\ UNCHANGED codecVars

\* variant: slices of the same length count as equal
BytesEqual_LengthOnly(a, b) == Len(a) = Len(b)

\* bytes.Equal
BytesEqual(a, b) == a = b

\* variant: the storage result echoes the address instead of the storage key
WrapResult_StorageEchoesAddress(e, addr, slot, expected, value, err) ==
    IF e = "VerifyProofValue"
    THEN [Valid |-> FALSE, Value |-> << >>, Error |-> "", Identity |-> << >>,
          Match |-> IF err # "" THEN FALSE ELSE BytesEqual(value, expected)]
    ELSE IF err # ""
    THEN [Valid |-> FALSE, Value |-> << >>, Error |-> err, Identity |-> addr,
          Match |-> FALSE]
    ELSE [Valid |-> TRUE, Value |-> value, Error |-> "", Identity |-> addr,
          Match |-> FALSE]

\* what the entry point makes of verifyProof's (value, err)
WrapResult(e, addr, slot, expected, value, err) ==
    IF e = "VerifyProofValue"
    THEN [Valid |-> FALSE, Value |-> << >>, Error |-> "", Identity |-> << >>,
          Match |-> IF err # "" THEN FALSE ELSE BytesEqual(value, expected)]
    ELSE IF err # ""
    THEN [Valid |-> FALSE, Value |-> << >>, Error |-> err,
          Identity |-> IF e = "VerifyAccountProof" THEN addr ELSE slot,
          Match |-> FALSE]
    ELSE [Valid |-> TRUE, Value |-> value, Error |-> "",
          Identity |-> IF e = "VerifyAccountProof" THEN addr ELSE slot,
          Match |-> FALSE]

\* variant: the wrappers hand verifyProof's error on as their own
WrapGoErr_Escalate(e, err) == err

WrapGoErr(e, err) == IF e = "VerifyProofValue" THEN err ELSE ""

Return ==
    /\ pc = "return"
    /\ result' = WrapResult(entry, address, storageKey, expectedValue, retValue, retErr)
    /\ goErr' = WrapGoErr(entry, retErr)
    /\ pc' = "done"
    /\ UNCHANGED <<entry, stateRoot, address, storageKey, key, expectedValue,
                   proofNodes, idx, nodeMap, keySlice, currentNode, keyPos, iterations,
                   lastStep, retValue, retErr>>
    /\ UNCHANGED codecVars

(***************************************************************************)
(* verifyProof as a function of its arguments: the same steps, run to the  *)
(* end.                                                                    *)
(***************************************************************************)
RECURSIVE indexFrom(_, _, _)
indexFrom(proof, i, map) ==
    IF i > Len(proof) THEN [ok |-> TRUE, err |-> "", map |-> map]
    ELSE LET e == indexNode(proof[i])
         IN IF ~e.ok THEN [ok |-> FALSE, err |-> e.err, map |-> map]
            ELSE indexFrom(proof, i + 1, MapPut(map, e.hash, e.node))

RECURSIVE walkFrom(_, _, _, _)
walkFrom(node, pos, slice, map) ==
    LET r == verifyStep(node, pos, slice, map)
    IN IF r.state = "Walking" THEN walkFrom(r.node, r.keyPos, slice, map)
       ELSE [value |-> r.value, err |-> r.err]

verifyProof(expectedHash, k, proof) ==
    IF Len(proof) = 0 THEN [value |-> << >>, err |-> "empty proof"]
    ELSE LET indexed == indexFrom(proof, 1, EmptyMap)
             root == findRoot(indexed.map, expectedHash, proof)
         IN IF ~indexed.ok THEN [value |-> << >>, err |-> indexed.err]
            ELSE IF ~root.ok
            THEN [value |-> << >>, err |-> "root hash not found in proof nodes"]
            ELSE walkFrom(root.node, 0, TrieKeySliceFromKey(k), indexed.map)

Next == Enter \/ IndexNode \/ FindRoot \/ Walk \/ Return

Spec == Init /\ [][Next]_vars

(***************************************************************************)
(* What the claims speak about, stated on the inputs and on the node and   *)
(* cursor the last iteration started from (lastStep), not on the           *)
(* traversal's own classification.                                         *)
(***************************************************************************)
IsWrapper == entry \in {"VerifyAccountProof", "VerifyStorageProof"}

Returned == pc \in {"return", "done"}

\* the serialized node inside proofNodes[i], or nothing if the wrapper is bad
Unwrapped(i) == RlpDecodeBytes(proofNodes[i])

\* the positions of the blobs whose unwrapped bytes hash to h
BlobsHashingTo(h) ==
    {i \in 1..Len(proofNodes) : Unwrapped(i).ok /\ Keccak256(Unwrapped(i).data) = h}

LsPath == lastStep.node.sharedPath

LsLeft == Len(keySlice) - lastStep.keyPos

LsShort == lastStep.taken /\ Len(LsPath) > 0 /\ LsLeft < Len(LsPath)

LsDiverges ==
    /\ lastStep.taken
    /\ Len(LsPath) > 0
    /\ LsLeft >= Len(LsPath)
    /\ \E i \in 1..Len(LsPath) : keySlice[lastStep.keyPos + i] # LsPath[i]

LsMatches ==
    /\ lastStep.taken
    /\ LsLeft >= Len(LsPath)
    /\ \A i \in 1..Len(LsPath) : keySlice[lastStep.keyPos + i] = LsPath[i]

LsCursor == lastStep.keyPos + Len(LsPath)

LsConsumed == LsMatches /\ LsCursor = Len(keySlice)

LsBranches == LsMatches /\ LsCursor < Len(keySlice)

LsChild == IF keySlice[LsCursor + 1] = 0 THEN lastStep.node.left ELSE lastStep.node.right

LsEmptyChild == LsBranches /\ LsChild.kind = "empty"

LsHashChild == LsBranches /\ LsChild.kind = "hash"

LsEmbeddedChild == LsBranches /\ LsChild.kind = "embedded"

(***************************************************************************)
(* C1.  With an empty proof-node list, VerifyAccountProof and              *)
(* VerifyStorageProof report a failed verification: Valid = false, a       *)
(* non-nil Error, and a nil Go error.                                      *)
(***************************************************************************)
C1_EmptyProofFails ==
    (IsWrapper /\ Len(proofNodes) = 0)
        => /\ goErr = ""
           /\ pc = "done" => (~result.Valid /\ result.Error # "")
           /\ Returned => (retErr # "" /\ retValue = << >>)
           /\ pc \in {"call", "return", "done"}

C1_Witness ==
    /\ pc = "done"
    /\ entry = "VerifyStorageProof"
    /\ Len(proofNodes) = 0
    /\ result.Error = "empty proof"

(***************************************************************************)
(* C2.  Absence of the key is a success: when the node an iteration starts *)
(* at has a shared path that differs from the key at some bit (the key     *)
(* having enough bits left), or the child chosen by the next key bit is    *)
(* Empty, verifyProof returns no value and no error, and the wrappers      *)
(* report Valid = true with an absent value.                               *)
(***************************************************************************)
C2_AbsenceIsSuccess ==
    (LsDiverges \/ LsEmptyChild)
        => /\ Returned
           /\ retErr = ""
           /\ retValue = << >>
           /\ goErr = ""
           /\ (pc = "done" /\ IsWrapper)
                 => (result.Valid /\ result.Value = << >> /\ result.Error = "")

C2_Witness ==
    /\ pc = "done"
    /\ entry = "VerifyAccountProof"
    /\ LsDiverges
    /\ result.Valid

(***************************************************************************)
(* C3.  When the cursor has consumed exactly the whole key after matching  *)
(* a node's shared path, verification succeeds with that node's stored     *)
(* value: for a proof made of the serialized nodes on the root-to-node     *)
(* path of a key, the returned bytes are the inline value the terminal     *)
(* node's blob carries, whatever form encodes the shared-path length.      *)
(* PathCases lists such proofs with the value written into the terminal    *)
(* blob.                                                                   *)
(***************************************************************************)
PathCase(root, k, nodes, value) ==
    [root |-> Keccak256(root), key |-> k, blobs |-> {RlpEncode(n) : n \in nodes},
     value |-> value]

\* shared-path lengths of the one-byte forms (1-32 and 160-382 bits), and Orchid
PathCasesOneByte ==
    {PathCase(RootT, <<166>>, {RootT, LeafL}, <<170>>),
     PathCase(RootT, <<188>>, {RootT}, <<187>>),
     PathCase(OrchidLeaf, <<166>>, {OrchidLeaf}, <<221>>),
     PathCase(AcctLeaf1, GetAccountKey(Addr1), {AcctLeaf1}, <<238, 1>>),
     PathCase(AcctNode, GetAccountKey(Addr1), {AcctNode}, <<238, 1>>),
     PathCase(StorLeaf0, GetAccountStorageKey(Addr1, Slot0), {StorLeaf0}, <<42>>)}

\* shared-path lengths only the VarInt form encodes (40 and 95 bits)
PathCasesVarInt ==
    {PathCase(NodeV, Key40, {NodeV}, <<204>>),
     PathCase(AcctNode, GetAccountStorageKey(Addr1, Slot1), {AcctNode, StorChild1},
              <<43>>)}

ProofBlobs == {proofNodes[i] : i \in 1..Len(proofNodes)}

InCase(c) ==
    /\ Returned
    /\ stateRoot = c.root
    /\ key = c.key
    /\ ProofBlobs = c.blobs

TerminalValueReturned(cases) ==
    \A c \in cases :
        InCase(c) => (LsConsumed /\ retErr = "" /\ retValue = c.value)

C3_TerminalValueReturned == TerminalValueReturned(PathCasesOneByte \cup PathCasesVarInt)

\* the same statement without the VarInt-encoded lengths
C3_OneByteLengthsOnly == TerminalValueReturned(PathCasesOneByte)

(***************************************************************************)
(* C4 (as stated).  If no supplied blob, after its RLP wrapper is          *)
(* stripped, hashes to the claimed root, verification fails with a         *)
(* root-not-found error whatever the nodes contain.  Stated for lists      *)
(* whose blobs all have a wrapper that can be stripped.                    *)
(***************************************************************************)
C4_RootNotFoundWhateverNodes ==
    (/\ Len(proofNodes) > 0
     /\ \A i \in 1..Len(proofNodes) : Unwrapped(i).ok
     /\ Returned
     /\ BlobsHashingTo(stateRoot) = {})
        => retErr = "root hash not found in proof nodes"

(***************************************************************************)
(* C4 (amended).  The root is located by the hash of the unwrapped         *)
(* serialized node: once every blob has been unwrapped, parsed and         *)
(* indexed, if no blob's unwrapped bytes hash to the claimed root the call *)
(* fails with root-not-found before any iteration; if one does, the        *)
(* traversal starts at that blob's node with cursor 0, wherever the blob   *)
(* stands in the list.                                                     *)
(***************************************************************************)
C4_RootByUnwrappedHash ==
    (Len(proofNodes) > 0 /\ idx = Len(proofNodes) /\ pc \in {"walk", "return", "done"})
        => IF BlobsHashingTo(stateRoot) = {}
           THEN /\ Returned
                /\ retErr = "root hash not found in proof nodes"
                /\ retValue = << >>
                /\ ~lastStep.taken
           ELSE /\ retErr # "root hash not found in proof nodes"
                /\ iterations = 0
                      => /\ pc = "walk"
                         /\ keyPos = 0
                         /\ \E i \in BlobsHashingTo(stateRoot) :
                               currentNode = FromMessage(Unwrapped(i).data).node

C4_Witness ==
    /\ pc = "done"
    /\ stateRoot = Keccak256(RlpEncode(RootT))
    /\ RlpEncode(RootT) \in ProofBlobs
    /\ retErr = "root hash not found in proof nodes"

(***************************************************************************)
(* C5.  When the child chosen by the next key bit is a Hash reference: if  *)
(* no supplied blob hashes to the digest, verification fails with a        *)
(* missing-proof-node error (no value, not non-membership); if one does,   *)
(* its node becomes the current node.                                      *)
(***************************************************************************)
C5_HashChild ==
    LsHashChild
        => IF BlobsHashingTo(LsChild.hash) = {}
           THEN /\ Returned
                /\ retErr = "missing proof node"
                /\ retValue = << >>
                /\ (pc = "done" /\ IsWrapper)
                      => (~result.Valid /\ result.Error = "missing proof node")
           ELSE /\ pc = "walk"
                /\ keyPos = LsCursor + 1
                /\ \E i \in BlobsHashingTo(LsChild.hash) :
                      currentNode = FromMessage(Unwrapped(i).data).node

C5_Witness ==
    /\ pc = "done"
    /\ entry = "VerifyStorageProof"
    /\ LsHashChild
    /\ BlobsHashingTo(LsChild.hash) = {}
    /\ ~result.Valid

(***************************************************************************)
(* C6.  When the child chosen by the next key bit is Embedded, the         *)
(* embedded node becomes the current node without a lookup in the proof    *)
(* set: no missing-proof-node error, even when no blob hashes to it.       *)
(***************************************************************************)
C6_EmbeddedChild ==
    LsEmbeddedChild
        => /\ pc = "walk"
           /\ retErr = ""
           /\ keyPos = LsCursor + 1
           /\ currentNode = LsChild.node

C6_Witness ==
    /\ pc = "walk"
    /\ LsEmbeddedChild
    /\ BlobsHashingTo(Keccak256(EmbR)) = {}
    /\ currentNode = FromMessage(EmbR).node

(***************************************************************************)
(* C7.  If the key has fewer bits left after the cursor than the node's    *)
(* non-empty shared path is long, verification fails with a key-too-short  *)
(* error: no value and no report of non-membership.                        *)
(***************************************************************************)
C7_KeyTooShort ==
    LsShort
        => /\ Returned
           /\ retErr = "key too short for shared path"
           /\ retValue = << >>
           /\ (pc = "done" /\ IsWrapper) => (~result.Valid /\ result.Error = retErr)
           /\ (pc = "done" /\ ~IsWrapper) => (~result.Match /\ goErr = retErr)

C7_Witness ==
    /\ pc = "done"
    /\ entry = "VerifyAccountProof"
    /\ LsShort
    /\ result.Error = "key too short for shared path"

(***************************************************************************)
(* C8.  The traversal loop terminates, also when Hash references form a    *)
(* cycle: every iteration that leaves the loop running moves the cursor    *)
(* forward by at least one bit, the cursor never passes the end of the     *)
(* key, and so at most (key bit length + 1) iterations run.                *)
(***************************************************************************)
C8_CursorAdvances ==
    /\ keyPos <= Len(keySlice)
    /\ iterations <= Len(keySlice) + 1
    /\ pc = "walk" => iterations <= keyPos
    /\ (pc = "walk" /\ lastStep.taken) => keyPos >= lastStep.keyPos + 1

C8_Witness ==
    /\ pc = "done"
    /\ stateRoot = Keccak256(CycleNode)
    /\ lastStep.node = FromMessage(CycleNode).node
    /\ Len(keySlice) >= 16
    /\ iterations = Len(keySlice) + 1
    /\ retValue = <<6>>

(***************************************************************************)
(* C9.  The outcome depends on the set of supplied nodes, not their order: *)
(* for the same root and key every permutation of the proof-node list      *)
(* gives the same success or failure and the same value.                   *)
(***************************************************************************)
\* the other orderings of the same blobs
Reordered(proof) ==
    {[i \in 1..Len(proof) |-> proof[f[i]]] : f \in Permutations(1..Len(proof))}
        \ {proof}

Outcome(r) == <<r.err = "", r.value>>

C9_OrderIndependent ==
    pc = "done"
        => \A p \in Reordered(proofNodes) :
              Outcome(verifyProof(stateRoot, key, p)) = <<retErr = "", retValue>>

C9_Witness ==
    /\ pc = "done"
    /\ proofNodes = <<RlpEncode(RootT), RlpEncode(LeafL)>>
    /\ stateRoot = Keccak256(RootT)
    /\ retValue = <<170>>

(***************************************************************************)
(* C10.  FromMessage returns an error for every message that ends before   *)
(* a section its flags or header announce is complete: no node cut short   *)
(* inside a section is ever indexed.                                       *)
(***************************************************************************)
C10_TruncationRejected ==
    \A i \in 1..Len(proofNodes) :
        (Unwrapped(i).ok /\ Unwrapped(i).data \in TruncatedNodes) => idx < i

\* the truncated nodes the deserializer does reject
C10_RejectedTruncations ==
    \A i \in 1..Len(proofNodes) :
        (Unwrapped(i).ok
         /\ Unwrapped(i).data \in TruncatedNodes \ {TruncPath, TruncValueLen})
            => idx < i

(***************************************************************************)
(* The wire formats written out, to produce the messages the deserializer  *)
(* is given: a node record is laid down section by section in the layout   *)
(* FromMessage reads.                                                      *)
(***************************************************************************)
\* the VarInt of v (v below 65536)
WriteVarInt(v) == IF v < 253 THEN <<v>> ELSE <<253, v % 256, v \div 256>>

EncodeUint24(v) == <<v \div 65536, (v \div 256) % 256, v % 256>>

\* the length byte (or 255 and a VarInt) and the packed bits
SerializeSharedPath(bits) ==
    LET L == Len(bits)
    IN (IF L >= 1 /\ L <= 32 THEN <<L - 1>>
        ELSE IF L >= 160 /\ L <= 382 THEN <<L - 128>>
        ELSE <<255>> \o WriteVarInt(L)) \o PackBits(bits)

RECURSIVE SerializeRSKIP107(_)

SerializeReference(ref) ==
    IF ref.kind = "empty" THEN << >>
    ELSE IF ref.kind = "hash" THEN ref.hash
    ELSE LET blob == SerializeRSKIP107(ref.node) IN <<Len(blob)>> \o blob

SerializeRSKIP107(n) ==
    LET hasLongVal == n.valueHash # << >>
        anyChild == n.left.kind # "empty" \/ n.right.kind # "empty"
        flags == (IF hasLongVal THEN 32 ELSE 0)
                 + (IF Len(n.sharedPath) > 0 THEN 16 ELSE 0)
                 + (IF n.left.kind # "empty" THEN 8 ELSE 0)
                 + (IF n.right.kind # "empty" THEN 4 ELSE 0)
                 + (IF n.left.kind = "embedded" THEN 2 ELSE 0)
                 + (IF n.right.kind = "embedded" THEN 1 ELSE 0)
    IN <<flags>>
       \o (IF Len(n.sharedPath) > 0 THEN SerializeSharedPath(n.sharedPath) ELSE << >>)
       \o SerializeReference(n.left)
       \o SerializeReference(n.right)
       \o (IF anyChild THEN WriteVarInt(n.childrenSize.Value) ELSE << >>)
       \o (IF hasLongVal THEN n.valueHash \o EncodeUint24(n.valueLength) ELSE n.value)

\* Orchid: arity, flags, children bit-field, path bit length, path, hashes, value
SerializeOrchid(n) ==
    LET hasLongVal == n.valueHash # << >>
        L == Len(n.sharedPath)
    IN <<2, IF hasLongVal THEN 2 ELSE 0, 0,
         (IF n.left.kind = "hash" THEN 1 ELSE 0) + (IF n.right.kind = "hash" THEN 2 ELSE 0),
         L \div 256, L % 256>>
       \o PackBits(n.sharedPath)
       \o SerializeReference(n.left)
       \o SerializeReference(n.right)
       \o (IF hasLongVal THEN n.valueHash ELSE n.value)

\* ---- the nodes that are serialized ----
\* shared-path bit lengths at the edges of the three length encodings
PathLengths == {0, 1, 2, 32, 33, 159, 160, 382, 383}

PathBits(L) == [j \in 1..L |-> IF j % 3 = 1 \/ j = L THEN 1 ELSE 0]

OneByteLength(L) == (L >= 1 /\ L <= 32) \/ (L >= 160 /\ L <= 382)

EmbeddedLeaf == FromMessage(LeafL).node

ChildRefs ==
    {NodeReferenceEmpty, NewHashReference(DigestOf(9)), NewNodeReference(EmbeddedLeaf)}

OrchidChildRefs == {NodeReferenceEmpty, NewHashReference(DigestOf(9))}

\* no value, an inline value, a long value (hash and length)
ValueForms ==
    {[value |-> << >>, valueLength |-> 0, valueHash |-> << >>],
     [value |-> <<153, 0, 7>>, valueLength |-> 3, valueHash |-> << >>],
     [value |-> << >>, valueLength |-> 66049, valueHash |-> DigestOf(11)]}

OrchidValueForms ==
    {[value |-> << >>, valueLength |-> 0, valueHash |-> << >>],
     [value |-> <<153, 0, 7>>, valueLength |-> 3, valueHash |-> << >>],
     [value |-> << >>, valueLength |-> 0, valueHash |-> DigestOf(11)]}

NodesRSKIP107 ==
    {NewTrieFull(PathBits(L), v.value, l, r, v.valueLength, v.valueHash,
                 IF l.kind # "empty" \/ r.kind # "empty"
                 THEN [Value |-> 300, Size |-> 3] ELSE NilVarInt) :
        L \in PathLengths, l \in ChildRefs, r \in ChildRefs, v \in ValueForms}

NodesOrchid ==
    {NewTrieFull(PathBits(L), v.value, l, r, v.valueLength, v.valueHash, NilVarInt) :
        L \in PathLengths, l \in OrchidChildRefs, r \in OrchidChildRefs,
        v \in OrchidValueForms}

SerializedRSKIP107 == {[node |-> n, bytes |-> SerializeRSKIP107(n)] : n \in NodesRSKIP107}

SerializedOrchid == {[node |-> n, bytes |-> SerializeOrchid(n)] : n \in NodesOrchid}

\* ---- messages that no serializer writes ----
\* an embedded left child whose payload starts with the Orchid arity byte
EmbeddedOrchidLook == <<8 + 2, Len(OrchidLeaf)>> \o OrchidLeaf \o <<1>>

\* embedded bits set for children that are not present; the rest is the value
StrayEmbeddedBits == {<<1, 9, 9>>, <<3, 9, 9>>, <<16 + 2, 0, 128, 9>>}

\* first bytes around the Orchid arity, with an Orchid-sized header after them
\* (as RSKIP-107 flags only 4 announces a section: a right child hash)
ArityNeighbours == {<<b, 0, 0, 0, 0, 8, 166, 221>> : b \in {0, 1, 2, 3, 4, 64, 128}}

\* a node with nothing but one embedded child holding payload p, children size 1
EmbedLeft(p) == <<8 + 2, Len(p)>> \o p \o <<1>>

EmbedRight(p) == <<4 + 1, Len(p)>> \o p \o <<1>>

EmbeddedPayloads == ArityNeighbours \cup {OrchidLeaf, Orchid12, LeafL, <<2>>, << >>}

OddMessages ==
    {<< >>, <<2>>, <<2, 0, 0, 0, 0>>, EmbeddedOrchidLook} \cup StrayEmbeddedBits
        \cup ArityNeighbours \cup TruncatedNodes
        \cup {EmbedLeft(p) : p \in EmbeddedPayloads}
        \cup {EmbedRight(p) : p \in EmbeddedPayloads}

ParserMessages ==
    {e.bytes : e \in SerializedRSKIP107} \cup {e.bytes : e \in SerializedOrchid}
        \cup OddMessages

(***************************************************************************)
(* A direct call of the deserializer: FromMessage(msg, nil).               *)
(***************************************************************************)
IdleVerifier ==
    /\ stateRoot = BogusRoot
    /\ key = << >>
    /\ expectedValue = << >>
    /\ proofNodes = << >>
    /\ pc = "call"
    /\ idx = 0
    /\ nodeMap = EmptyMap
    /\ keySlice = << >>
    /\ currentNode = NilTrie
    /\ keyPos = 0
    /\ iterations = 0
    /\ lastStep = NoStep
    /\ retValue = << >>
    /\ retErr = ""
    /\ result = NoResult
    /\ goErr = ""

verifierVars ==
    <<entry, stateRoot, address, storageKey, key, expectedValue, proofNodes, idx,
      nodeMap, keySlice, currentNode, keyPos, iterations, lastStep, retValue, retErr,
      result, goErr>>

ParserInit ==
    /\ IdleVerifier
    /\ entry = "FromMessage"
    /\ address = Addr1
    /\ storageKey = Slot0
    /\ msg \in ParserMessages
    /\ trie = NoParse
    /\ mapped = NoKey

Deserialize ==
    /\ pc = "call"
    /\ entry = "FromMessage"
    /\ LET r == FromMessage(msg)
       IN trie' = [done |-> TRUE, ok |-> r.ok, err |-> r.err, node |-> r.node]
    /\ pc' = "done"
    /\ UNCHANGED <<verifierVars, msg, mapped>>

ParserNext == Deserialize

ParserSpec == ParserInit /\ [][ParserNext]_vars

(***************************************************************************)
(* C11.  Shared-path round trip in the RSKIP-107 format: for a node whose  *)
(* shared path of L bits is written in any of the three length encodings   *)
(* (length byte 0-31, length byte 32-254, 255 and a VarInt), FromMessage   *)
(* succeeds and returns a shared path of exactly those L bits, and the     *)
(* left and right references, children size, value, value hash and value   *)
(* length that were written after the path.                                *)
(***************************************************************************)
RoundTrips(entries) ==
    \A e \in entries :
        (trie.done /\ msg = e.bytes) => (trie.ok /\ trie.node = e.node)

WithPath(entries) == {e \in entries : Len(e.node.sharedPath) > 0}

C11_SharedPathRoundTrip == RoundTrips(WithPath(SerializedRSKIP107))

\* the same statement for the two one-byte length encodings only
C11_OneByteLengthRoundTrip ==
    RoundTrips({e \in WithPath(SerializedRSKIP107) :
                   OneByteLength(Len(e.node.sharedPath))})

\* with a VarInt length the path itself comes back whenever parsing succeeds
C11_VarIntPathBits ==
    \A e \in WithPath(SerializedRSKIP107) :
        (trie.done /\ msg = e.bytes /\ trie.ok) => trie.node.sharedPath = e.node.sharedPath

(***************************************************************************)
(* C12.  Format dispatch: an empty message is an error; a message whose    *)
(* first byte is 2 is parsed as Orchid and every other message as          *)
(* RSKIP-107; the payload of an embedded child is parsed as RSKIP-107      *)
(* whatever its first byte, also when that byte is 2.                      *)
(***************************************************************************)
Outcome12(r) == <<r.ok, r.err, r.node>>

\* what the payload OrchidLeaf is as an RSKIP-107 node: flags 2 (a stray
\* embedded bit), no path, no children, the other seven bytes as the value
OrchidLeafAsRSKIP107 ==
    NewTrieFull(<< >>, Tail(OrchidLeaf), NodeReferenceEmpty, NodeReferenceEmpty,
                Len(OrchidLeaf) - 1, << >>, NilVarInt)

C12_FormatDispatch ==
    trie.done
        => /\ msg = << >> => (~trie.ok /\ trie.err = "empty message")
           /\ (msg # << >> /\ msg[1] = 2)
                 => /\ Outcome12(trie) = Outcome12(fromMessageOrchid(msg))
                    /\ Len(msg) < 6 => ~trie.ok
                    /\ \A e \in SerializedOrchid :
                          msg = e.bytes => (trie.ok /\ trie.node = e.node)
           /\ (msg # << >> /\ msg[1] # 2)
                 => /\ Outcome12(trie) = Outcome12(fromMessageRSKIP107(msg))
                    /\ trie.err \notin {"invalid arity", "orchid message too short"}
                    /\ (msg \in ArityNeighbours /\ ~HasFlag(msg[1], 4))
                          => (/\ trie.ok
                              /\ trie.node.sharedPath = << >>
                              /\ trie.node.value = Tail(msg))
           /\ \A p \in EmbeddedPayloads :
                 /\ msg = EmbedLeft(p)
                       => /\ trie.ok = fromMessageRSKIP107(p).ok
                          /\ trie.ok => trie.node.left
                                           = NewNodeReference(fromMessageRSKIP107(p).node)
                 /\ msg = EmbedRight(p)
                       => /\ trie.ok = fromMessageRSKIP107(p).ok
                          /\ trie.ok => trie.node.right
                                           = NewNodeReference(fromMessageRSKIP107(p).node)
           /\ msg = EmbeddedOrchidLook
                 => (trie.ok /\ trie.node.left = NewNodeReference(OrchidLeafAsRSKIP107))

C12_Witness ==
    /\ trie.done
    /\ msg = EmbeddedOrchidLook
    /\ trie.ok
    /\ trie.node.left.kind = "embedded"
    /\ trie.node.left.node.value = <<0, 0, 0, 0, 8, 166, 221>>
    /\ fromMessageOrchid(OrchidLeaf).node.value = <<221>>

(***************************************************************************)
(* C13.  VerifyAccountProof and VerifyStorageProof never return a          *)
(* verification failure as their Go error: the returned error is nil for   *)
(* every input; Valid is true exactly when the traversal ended in Found    *)
(* (key consumed) or NotFound (diverging path, Empty child); Error is set  *)
(* exactly when Valid is false; Value is set only when Valid is true; and  *)
(* the result echoes the address (account) or the storage key (storage).   *)
(***************************************************************************)
C13_WrappersNeverEscalate ==
    IsWrapper
        => /\ goErr = ""
           /\ pc = "done"
                 => /\ result.Valid = (retErr = "")
                    /\ result.Valid
                          = (lastStep.taken /\ (LsConsumed \/ LsDiverges \/ LsEmptyChild))
                    /\ (result.Error # "") = ~result.Valid
                    /\ result.Error = retErr
                    /\ ~result.Valid => result.Value = << >>
                    /\ result.Valid => result.Value = retValue
                    /\ entry = "VerifyAccountProof" => result.Identity = address
                    /\ entry = "VerifyStorageProof" => result.Identity = storageKey

C13_Witness ==
    /\ pc = "done"
    /\ entry = "VerifyStorageProof"
    /\ storageKey = Slot1
    /\ LsHashChild
    /\ ~result.Valid
    /\ result.Error = "missing proof node"
    /\ result.Identity = Slot1
    /\ goErr = ""

(***************************************************************************)
(* Direct calls of the trie key mapper.                                    *)
(***************************************************************************)
ZeroAddress == Zeros(AddressKeySize)

MapperAddresses == {Addr1, Addr2, ZeroAddress}

\* a slot with exactly k leading zero bytes, then 01, then bytes some of which
\* are zero again
SlotLeading(k) ==
    [j \in 1..HashSize |-> IF j <= k THEN 0
                           ELSE IF j = k + 1 THEN 1
                           ELSE IF j % 3 = 0 THEN 0 ELSE j]

MapperSlots == {SlotLeading(k) : k \in 0..HashSize} \cup {Zeros(HashSize - 2) \o <<1, 0>>}

MapperFunctions ==
    {"GetAccountKey", "GetCodeKey", "GetAccountStoragePrefixKey", "GetAccountStorageKey"}

MapperInit ==
    /\ IdleVerifier
    /\ entry \in MapperFunctions
    /\ address \in MapperAddresses
    /\ storageKey \in MapperSlots
    /\ (entry # "GetAccountStorageKey" => storageKey = Slot0)
    /\ msg = << >>
    /\ trie = NoParse
    /\ mapped = NoKey

MapAccountKey ==
    /\ pc = "call"
    /\ entry = "GetAccountKey"
    /\ mapped' = [fn |-> entry, key |-> GetAccountKey(address)]
    /\ pc' = "done"
    /\ UNCHANGED <<verifierVars, msg, trie>>

MapCodeKey ==
    /\ pc = "call"
    /\ entry = "GetCodeKey"
    /\ mapped' = [fn |-> entry, key |-> GetCodeKey(address)]
    /\ pc' = "done"
    /\ UNCHANGED <<verifierVars, msg, trie>>

MapStoragePrefixKey ==
    /\ pc = "call"
    /\ entry = "GetAccountStoragePrefixKey"
    /\ mapped' = [fn |-> entry, key |-> GetAccountStoragePrefixKey(address)]
    /\ pc' = "done"
    /\ UNCHANGED <<verifierVars, msg, trie>>

MapStorageKey ==
    /\ pc = "call"
    /\ entry = "GetAccountStorageKey"
    /\ mapped' = [fn |-> entry, key |-> GetAccountStorageKey(address, storageKey)]
    /\ pc' = "done"
    /\ UNCHANGED <<verifierVars, msg, trie>>

MapperNext == MapAccountKey \/ MapCodeKey \/ MapStoragePrefixKey \/ MapStorageKey

MapperSpec == MapperInit /\ [][MapperNext]_vars

(***************************************************************************)
(* C14.  GetAccountStorageKey(address, slot) is                            *)
(*   00 || Keccak256(address)[:10] || address || 00                        *)
(*      || Keccak256(slot)[:10] || slot without its leading zero bytes.    *)
(* All leading zero bytes go and nothing else: the all-zero slot leaves an *)
(* empty suffix (not one zero byte), slot 00..01 leaves the one byte 01.   *)
(***************************************************************************)
\* the suffix of slot that starts at its first non-zero byte
WithoutLeadingZeros(slot) ==
    CHOOSE t \in {SubSeq(slot, i, Len(slot)) : i \in 1..(Len(slot) + 1)} :
        /\ t = << >> \/ t[1] # 0
        /\ \A j \in 1..(Len(slot) - Len(t)) : slot[j] = 0

C14_StorageKeyLayout ==
    mapped.fn = "GetAccountStorageKey"
        => /\ mapped.key = <<0>> \o SubSeq(Keccak256(address), 1, 10) \o address \o <<0>>
                              \o SubSeq(Keccak256(storageKey), 1, 10)
                              \o WithoutLeadingZeros(storageKey)
           /\ storageKey = Slot0 => Len(mapped.key) = Len(address) + 22
           /\ storageKey = Slot1
                 => (Len(mapped.key) = Len(address) + 23 /\ mapped.key[Len(mapped.key)] = 1)

C14_Witness ==
    /\ mapped.fn = "GetAccountStorageKey"
    /\ address = Addr2
    /\ storageKey = Slot0
    /\ Len(mapped.key) = 42
    /\ SubSeq(mapped.key, 33, 42) = SubSeq(Keccak256(Slot0), 1, 10)

(***************************************************************************)
(* C15.  VerifyProofValue returns (true, nil) exactly when the traversal   *)
(* succeeds and the recovered value has the same bytes as the expected     *)
(* value, (false, nil) when it succeeds with other bytes, and (false, err) *)
(* with the traversal's error when it fails.  A key proved absent recovers *)
(* no bytes, which equals an empty expected value.                         *)
(***************************************************************************)
SameBytes(a, b) == Len(a) = Len(b) /\ \A i \in 1..Len(a) : a[i] = b[i]

TraversalSucceeded == lastStep.taken /\ (LsConsumed \/ LsDiverges \/ LsEmptyChild)

C15_ValueComparison ==
    (entry = "VerifyProofValue" /\ pc = "done")
        => /\ TraversalSucceeded = (retErr = "")
           /\ IF TraversalSucceeded
              THEN /\ goErr = ""
                   /\ result.Match = SameBytes(retValue, expectedValue)
                   /\ LsConsumed => retValue = GetValue(lastStep.node)
                   /\ ~LsConsumed => retValue = << >>
              ELSE /\ result.Match = FALSE
                   /\ goErr = retErr
                   /\ goErr # ""

C15_Witness ==
    /\ pc = "done"
    /\ entry = "VerifyProofValue"
    /\ LsConsumed
    /\ expectedValue = <<170>>
    /\ retValue = <<170>>
    /\ result.Match
    /\ goErr = ""

\* the other two outcomes, and an absent value against an empty expectation
C15_DifferentValueCase ==
    /\ pc = "done"
    /\ entry = "VerifyProofValue"
    /\ retValue = <<187>>
    /\ ~result.Match
    /\ goErr = ""

C15_FailureCase ==
    /\ pc = "done"
    /\ entry = "VerifyProofValue"
    /\ ~result.Match
    /\ goErr = "missing proof node"

C15_AbsentEqualsEmptyCase ==
    /\ pc = "done"
    /\ entry = "VerifyProofValue"
    /\ LsEmptyChild
    /\ expectedValue = << >>
    /\ result.Match

(***************************************************************************)
(* C16.  The RSKIP-107 parser consumes flags, shared path, left, right,    *)
(* children size and value in this order, each section starting at the     *)
(* byte after the previous one: the children-size VarInt is read exactly   *)
(* when a child presence bit is set; without the long-value flag the       *)
(* inline value is all bytes after the preceding sections (absent when     *)
(* there are none); with it the value is absent and the value hash and     *)
(* the 3-byte length are the next 35 bytes.  Stated on the bytes of the    *)
(* message: the sections' lengths give each section's offset.              *)
(***************************************************************************)
AnyChild(n) == n.left.kind # "empty" \/ n.right.kind # "empty"

PathSection(n) ==
    IF Len(n.sharedPath) > 0 THEN SerializeSharedPath(n.sharedPath) ELSE << >>

\* where the children-size section starts and where the value section starts
ChildrenSizeOffset(n) ==
    1 + Len(PathSection(n)) + Len(SerializeReference(n.left))
      + Len(SerializeReference(n.right))

ValueOffset(n) ==
    ChildrenSizeOffset(n)
      + (IF AnyChild(n) THEN Len(WriteVarInt(n.childrenSize.Value)) ELSE 0)

SectionsInOrder(entries) ==
    \A e \in entries :
        (trie.done /\ msg = e.bytes)
            => LET n == e.node
                   t == trie.node
                   off == ValueOffset(n)
               IN /\ trie.ok
                  /\ t.sharedPath = n.sharedPath
                  /\ t.left = n.left
                  /\ t.right = n.right
                  /\ IF AnyChild(n)
                     THEN /\ t.childrenSize.Size = off - ChildrenSizeOffset(n)
                          /\ t.childrenSize = ReadVarInt(Drop(msg, ChildrenSizeOffset(n))).vi
                     ELSE t.childrenSize = NilVarInt
                  /\ IF HasFlag(msg[1], 32)
                     THEN /\ t.value = << >>
                          /\ t.valueHash = SubSeq(msg, off + 1, off + HashSize)
                          /\ t.valueLength
                                = DecodeUint24(SubSeq(msg, off + HashSize + 1,
                                                      off + HashSize + 3))
                     ELSE /\ t.value = Drop(msg, off)
                          /\ t.valueLength = Len(msg) - off
                          /\ t.valueHash = << >>

C16_SectionOrder == SectionsInOrder(SerializedRSKIP107)

\* the same statement for nodes without a shared path or with a one-byte
\* path length
C16_SectionOrderShortLengths ==
    SectionsInOrder({e \in SerializedRSKIP107 :
                        Len(e.node.sharedPath) = 0
                        \/ OneByteLength(Len(e.node.sharedPath))})

(***************************************************************************)
(* C17.  Every child reference of a successfully deserialized node is      *)
(* exactly one of Empty, Hash, Embedded.  RSKIP-107: Empty iff the         *)
(* presence bit is clear (the embedded bit is then ignored and no bytes    *)
(* are consumed for the child), Embedded iff presence and embedded bits    *)
(* are both set, Hash with 32 bytes iff present and not embedded.  Orchid: *)
(* Hash iff the child's bit in the children bit-field is set, Empty        *)
(* otherwise, never Embedded.                                              *)
(***************************************************************************)
\* the reference holds the fields of exactly one variant
WellFormedReference(ref) ==
    \/ ref.kind = "empty" /\ DOMAIN ref = {"kind"}
    \/ ref.kind = "hash" /\ DOMAIN ref = {"kind", "hash"} /\ Len(ref.hash) = HashSize
    \/ ref.kind = "embedded" /\ DOMAIN ref = {"kind", "node"}

KindByFlags(present, embedded) ==
    IF ~present THEN "empty" ELSE IF embedded THEN "embedded" ELSE "hash"

C17_ReferenceKinds ==
    /\ (trie.done /\ msg \in StrayEmbeddedBits) => trie.ok
    /\ (trie.done /\ trie.ok)
        => /\ WellFormedReference(trie.node.left)
           /\ WellFormedReference(trie.node.right)
           /\ IF msg[1] = 2
              THEN /\ trie.node.left.kind
                         = KindByFlags(HasFlag(msg[3] * 256 + msg[4], 1), FALSE)
                   /\ trie.node.right.kind
                         = KindByFlags(HasFlag(msg[3] * 256 + msg[4], 2), FALSE)
              ELSE /\ trie.node.left.kind
                         = KindByFlags(HasFlag(msg[1], 8), HasFlag(msg[1], 2))
                   /\ trie.node.right.kind
                         = KindByFlags(HasFlag(msg[1], 4), HasFlag(msg[1], 1))
                   /\ (msg[1] \in {1, 2, 3})
                         => (trie.node.value = Tail(msg) /\ trie.node.sharedPath = << >>)
                   /\ msg = <<16 + 2, 0, 128, 9>>
                         => (trie.node.sharedPath = <<1>> /\ trie.node.value = <<9>>)

C17_Witness ==
    /\ trie.done
    /\ trie.ok
    /\ msg[1] = 16 + 8 + 4 + 2
    /\ trie.node.left = NewNodeReference(EmbeddedLeaf)
    /\ trie.node.right = NewHashReference(DigestOf(9))

\* further cases: a stray embedded bit, and an Orchid node with both hashes
C17_StrayBitCase ==
    /\ trie.done
    /\ trie.ok
    /\ msg = <<3, 9, 9>>
    /\ trie.node.left.kind = "empty"
    /\ trie.node.right.kind = "empty"

C17_OrchidCase ==
    /\ trie.done
    /\ trie.ok
    /\ msg[1] = 2
    /\ trie.node.left.kind = "hash"
    /\ trie.node.right.kind = "hash"

(***************************************************************************)
(* C18.  Every node FromMessage returns, in either format, has             *)
(* valueLength equal to the byte length of its value whenever a value is   *)
(* present, and has no value hash when it was parsed without the           *)
(* long-value flag.  The same holds of the nodes embedded in it.           *)
(***************************************************************************)
ValueLengthAgrees(n) == n.value # << >> => n.valueLength = Len(n.value)

\* the long-value flag of the message: bit 1 of the Orchid flags byte, bit 5
\* of the RSKIP-107 flags byte
LongValueFlag(m) == IF m[1] = 2 THEN HasFlag(m[2], 2) ELSE HasFlag(m[1], 32)

EmbeddedChildren(n) ==
    {r.node : r \in {x \in {n.left, n.right} : x.kind = "embedded"}}

C18_ValueLengthAndHash ==
    (trie.done /\ trie.ok)
        => /\ ValueLengthAgrees(trie.node)
           /\ ~LongValueFlag(msg) => trie.node.valueHash = << >>
           /\ LongValueFlag(msg) => trie.node.value = << >>
           /\ \A c \in EmbeddedChildren(trie.node) :
                 ValueLengthAgrees(c) /\ (c.valueHash = << >> \/ c.value = << >>)

C18_Witness ==
    /\ trie.done
    /\ trie.ok
    /\ msg[1] = 16
    /\ Len(trie.node.sharedPath) = 160
    /\ trie.node.value = <<153, 0, 7>>
    /\ trie.node.valueLength = 3
    /\ trie.node.valueHash = << >>

\* an Orchid node with an inline value
C18_OrchidCase ==
    /\ trie.done
    /\ trie.ok
    /\ msg[1] = 2
    /\ trie.node.value = <<153, 0, 7>>
    /\ trie.node.valueLength = 3

(***************************************************************************)
(* The bit indices one iteration of the traversal loop hands to            *)
(* TrieKeySlice.Get, for the iteration that starts at cursor pos.          *)
(***************************************************************************)
\* the values of i for which the comparison loop runs its body: none when the
\* path is empty or the key too short, else up to the first differing bit
comparedBits(sharedPath, slice, pos) ==
    IF SliceLength(sharedPath) = 0 \/ SliceLength(slice) - pos < SliceLength(sharedPath)
    THEN {}
    ELSE LET differing == {i \in 0..(SliceLength(sharedPath) - 1) :
                              SliceGet(slice, pos + i) # SliceGet(sharedPath, i)}
         IN IF differing = {} THEN 0..(SliceLength(sharedPath) - 1)
            ELSE {i \in 0..(SliceLength(sharedPath) - 1) : \A d \in differing : i <= d}

\* variant: the next key bit is read unless the cursor is beyond the key
keyBitsRead_ReadsAtEnd(sharedPath, slice, pos) ==
    {pos + i : i \in comparedBits(sharedPath, slice, pos)}
        \cup (IF matchSharedPath(sharedPath, slice, pos) = "matches"
                 /\ pos + SliceLength(sharedPath) <= SliceLength(slice)
              THEN {pos + SliceLength(sharedPath)} ELSE {})

\* keySlice.Get(keyPos + i) in the comparison loop, keySlice.Get(keyPos) after it
keyBitsRead(sharedPath, slice, pos) ==
    {pos + i : i \in comparedBits(sharedPath, slice, pos)}
        \cup (IF matchSharedPath(sharedPath, slice, pos) = "matches"
                 /\ pos + SliceLength(sharedPath) < SliceLength(slice)
              THEN {pos + SliceLength(sharedPath)} ELSE {})

\* sharedPath.Get(i) in the comparison loop
pathBitsRead(sharedPath, slice, pos) == comparedBits(sharedPath, slice, pos)

(***************************************************************************)
(* C19.  Throughout the traversal the key-bit cursor never exceeds the     *)
(* key's bit length, and every bit read from the key (in the shared-path   *)
(* comparison and when choosing a child) and from a shared path is at an   *)
(* index below the length of what it is read from: no out-of-range bit     *)
(* access, for any key and proof set.                                      *)
(***************************************************************************)
C19_BitAccessInRange ==
    /\ keyPos >= 0
    /\ keyPos <= SliceLength(keySlice)
    /\ lastStep.taken
          => /\ lastStep.keyPos <= SliceLength(keySlice)
             /\ \A i \in keyBitsRead(LsPath, keySlice, lastStep.keyPos) :
                   i >= 0 /\ i < SliceLength(keySlice)
             /\ \A i \in pathBitsRead(LsPath, keySlice, lastStep.keyPos) :
                   i >= 0 /\ i < SliceLength(LsPath)
    /\ pc = "walk"
          => /\ \A i \in keyBitsRead(currentNode.sharedPath, keySlice, keyPos) :
                   i >= 0 /\ i < SliceLength(keySlice)
             /\ \A i \in pathBitsRead(currentNode.sharedPath, keySlice, keyPos) :
                   i >= 0 /\ i < SliceLength(currentNode.sharedPath)

C19_Witness ==
    /\ pc = "done"
    /\ lastStep.taken
    /\ lastStep.keyPos > 0
    /\ Len(LsPath) > 0
    /\ LsConsumed
    /\ keyBitsRead(LsPath, keySlice, lastStep.keyPos)
          = lastStep.keyPos..(SliceLength(keySlice) - 1)

\* the last key bit read to choose a child, and a cursor stopped at the end
C19_LastBitChoosesChild ==
    /\ lastStep.taken
    /\ LsBranches
    /\ LsCursor = SliceLength(keySlice) - 1
    /\ LsCursor \in keyBitsRead(LsPath, keySlice, lastStep.keyPos)

(***************************************************************************)
(* C20.  Every supplied blob is unwrapped and parsed before the traversal  *)
(* starts: if any blob of the list cannot be RLP-unwrapped or cannot be    *)
(* deserialized, verification fails with a decode or parse error and no    *)
(* iteration runs, even when that blob is not on the key's path and the    *)
(* other nodes reach a terminal state.                                     *)
(***************************************************************************)
\* the positions of the blobs that do not unwrap or do not deserialize
BadBlobs ==
    {i \in 1..Len(proofNodes) :
        ~Unwrapped(i).ok \/ ~FromMessage(Unwrapped(i).data).ok}

C20_AllBlobsParsedFirst ==
    LET bad == BadBlobs
        first == CHOOSE i \in bad : \A j \in bad : i <= j
    IN IF bad = {}
       THEN (pc = "walk" \/ lastStep.taken) => idx = Len(proofNodes)
       ELSE /\ pc # "walk"
            /\ ~lastStep.taken
            /\ iterations = 0
            /\ idx < first
            /\ Returned
                  => /\ retValue = << >>
                     /\ retErr = IF Unwrapped(first).ok
                                 THEN "failed to parse proof node"
                                 ELSE "failed to RLP decode proof node"
            /\ (pc = "done" /\ IsWrapper) => (~result.Valid /\ result.Error = retErr)
            /\ (pc = "done" /\ ~IsWrapper) => (~result.Match /\ goErr = retErr)

\* the root alone proves key bc (value bb); the blob after it is not a node
C20_Witness ==
    /\ pc = "done"
    /\ stateRoot = Keccak256(RootT)
    /\ key = <<188>>
    /\ proofNodes = <<RlpEncode(RootT), BadRlp>>
    /\ verifyProof(stateRoot, key, <<RlpEncode(RootT)>>) = [value |-> <<187>>, err |-> ""]
    /\ retErr = "failed to RLP decode proof node"
    /\ retValue = << >>

\* a blob that unwraps and does not deserialize, after a node that would do
C20_ParseErrorCase ==
    /\ pc = "done"
    /\ proofNodes = <<RlpEncode(Node12), RlpEncode(NoHash)>>
    /\ stateRoot = Keccak256(Node12)
    /\ retErr = "failed to parse proof node"

(***************************************************************************)
(* C21.  The key classes never collide, whatever the hash function: for    *)
(* one address the account key is a proper prefix of the code key and of   *)
(* every storage key; the code key and the storage keys part at the first  *)
(* bit after the account key (code 1, storage 0); and distinct (address,   *)
(* slot) pairs have distinct storage keys although the slot's leading zero *)
(* bytes are stripped.  Keys are told apart by their length and by the     *)
(* bytes that are not hash output.                                         *)
(***************************************************************************)
IsProperPrefix(p, k) == Len(p) < Len(k) /\ SubSeq(k, 1, Len(p)) = p

\* the key without the two truncated hashes (bytes 2-11 and 33-42), and its length
NonHashPart(k) ==
    <<Len(k), SubSeq(k, 1, 1),
      SubSeq(k, SecureKeySize + 2, Min(Len(k), SecureKeySize + AddressKeySize + 2)),
      SubSeq(k, 2 * SecureKeySize + AddressKeySize + 3, Len(k))>>

\* every key of the three classes over the addresses and slots drawn
AllAccountKeys == {[fn |-> "GetAccountKey", addr |-> a, slot |-> Slot0,
                    key |-> GetAccountKey(a)] : a \in MapperAddresses}

AllCodeKeys == {[fn |-> "GetCodeKey", addr |-> a, slot |-> Slot0,
                 key |-> GetCodeKey(a)] : a \in MapperAddresses}

AllStorageKeys == {[fn |-> "GetAccountStorageKey", addr |-> a, slot |-> t,
                    key |-> GetAccountStorageKey(a, t)] :
                      a \in MapperAddresses, t \in MapperSlots}

AllKeys == AllAccountKeys \cup AllCodeKeys \cup AllStorageKeys

\* the bit of key k that follows the account key of its address
BitAfterAccountKey(k, addr) ==
    SliceGet(TrieKeySliceFromKey(k), 8 * Len(GetAccountKey(addr)))

C21_KeyClassesDisjoint ==
    /\ mapped.fn \in {"GetCodeKey", "GetAccountStoragePrefixKey", "GetAccountStorageKey"}
          => /\ IsProperPrefix(GetAccountKey(address), mapped.key)
             /\ BitAfterAccountKey(mapped.key, address)
                   = IF mapped.fn = "GetCodeKey" THEN 1 ELSE 0
    /\ mapped.fn = "GetAccountStorageKey"
          => IsProperPrefix(GetAccountStoragePrefixKey(address), mapped.key)
    /\ mapped.fn \in {"GetAccountKey", "GetCodeKey", "GetAccountStorageKey"}
          => \A o \in AllKeys :
                <<o.fn, o.addr, o.slot>> # <<mapped.fn, address, storageKey>>
                    => /\ o.key # mapped.key
                       /\ NonHashPart(o.key) # NonHashPart(mapped.key)

\* slot 00..0100: the suffix 01 00 keeps its zero byte, next to slot 00..01
C21_Witness ==
    /\ mapped.fn = "GetAccountStorageKey"
    /\ address = Addr1
    /\ storageKey = Zeros(HashSize - 2) \o <<1, 0>>
    /\ Len(mapped.key) = 44
    /\ SubSeq(mapped.key, 43, 44) = <<1, 0>>
    /\ Len(GetAccountStorageKey(Addr1, Slot1)) = 43
    /\ IsProperPrefix(GetAccountKey(Addr1), mapped.key)
    /\ BitAfterAccountKey(mapped.key, Addr1) = 0

\* the code key of the same address, parting with bit 1
C21_CodeKeyCase ==
    /\ mapped.fn = "GetCodeKey"
    /\ address = Addr1
    /\ IsProperPrefix(GetAccountKey(Addr1), mapped.key)
    /\ BitAfterAccountKey(mapped.key, Addr1) = 1

====
